---- MODULE Spec2Model ----
(***************************************************************************)
(* seq_consistency_poc.c: the store/load litmus test.  main resets X and   *)
(* Y, releases thread1 and thread2 through beginSema1/beginSema2, waits    *)
(* for both on endSema1/endSema2 and counts the trials in which both       *)
(* threads read 0.  Each thread owns a FIFO store buffer: a store is made  *)
(* visible to the other threads when it is flushed, a load reads the       *)
(* thread's own newest buffered store first.  Under memoryModel = "SC"     *)
(* every store is written straight to memory and no buffer is ever used.   *)
(***************************************************************************)
EXTENDS Integers, Sequences, FiniteSets, TLC

\* Number of trials of the endless loop the model explores.
MaxTrials == 4

Workers == {"thread1", "thread2"}
Threads == {"main"} \cup Workers
Cells == {"X", "Y", "r1", "r2"}
Semas == {"beginSema1", "endSema1", "beginSema2", "endSema2"}

\* rand() % 8
RandMod == 8

\* The width of int that the narrow-int specification gives the counters.
IntBitsNarrow == 3

\* sizeof(int) * 8 on the platforms the program is built for
IntBitsReal == 32

\* The processor counts explored: a small machine and the one of the
\* header comment ("Number of processors: 16").
ProcessorCounts == {2, 16}

\* CPU_SET(10, &cpus) in thread1Func, CPU_SET(1, &cpus) in thread2Func
Cpu(w) == IF w = "thread1" THEN 10 ELSE 1

BeginSema(w) == IF w = "thread1" THEN "beginSema1" ELSE "beginSema2"
EndSema(w) == IF w = "thread1" THEN "endSema1" ELSE "endSema2"
\* the variable a thread stores 1 to, the one it loads, the cell it loads into
OwnVar(w) == IF w = "thread1" THEN "X" ELSE "Y"
OtherVar(w) == IF w = "thread1" THEN "Y" ELSE "X"
\* Both workers load into r1.
ResCellShared(w) == "r1"

ResCell(w) == IF w = "thread1" THEN "r1" ELSE "r2"

VARIABLES
    memoryModel,  \* "TSO": stores pass through the store buffers; "SC": they do not
    pc,           \* each thread's next statement
    mem,          \* the globals X, Y, r1, r2 as memory holds them
    sb,           \* each thread's store buffer: a sequence of <<cell, value>>
    sem,          \* the value of each semaphore
    detected,     \* main's local
    iterations,   \* main's local
    out,          \* the lines printed at line 160: <<detected, iterations>>
    nPost,        \* history: sem_post calls completed on each semaphore
    nWait,        \* history: sem_wait calls returned on each semaphore
    nTxn,         \* history: stores of 1 (line 86 / 112) each worker has executed
    nRes,         \* history: stores to its result cell each worker has executed
    results,      \* history: <<r1, r2>> as memory held them at each evaluation
    numberOfProcessors,  \* what sysconf(_SC_NPROCESSORS_ONLN) returns
    intBits,      \* the width of int
    affinity,     \* the set of CPUs each worker may run on (its cpu_set_t)
    failed,       \* history: the startup calls that have failed, <<call, thread>>
    lastLoad      \* history: the value each worker's last load returned

\* What the program runs on; no statement changes it.
machine == <<memoryModel, numberOfProcessors, intBits>>

vars == <<machine, pc, mem, sb, sem, detected, iterations, out,
          nPost, nWait, nTxn, nRes, results, affinity, failed, lastLoad>>

X == mem.X
Y == mem.Y
r1 == mem.r1
r2 == mem.r2

----------------------------------------------------------------------------
(* The memory system.  ms is a record [mem, sb]. *)

MS == [mem |-> mem, sb |-> sb]

SetMS(ms) == mem' = ms.mem /\ sb' = ms.sb

\* A store by thread t that is written to memory at once.
StoreThrough(ms, t, c, v) == [ms EXCEPT !.mem[c] = v]

\* A store by thread t that waits in t's store buffer.
StoreBuffered(ms, t, c, v) == [ms EXCEPT !.sb[t] = Append(@, <<c, v>>)]

\* Hardware that buffers every store, whatever the memory model.
StoreOpAlwaysBuffered(ms, t, c, v) == StoreBuffered(ms, t, c, v)

\* Hardware that never buffers a store.
StoreOpNeverBuffered(ms, t, c, v) == StoreThrough(ms, t, c, v)

StoreOp(ms, t, c, v) ==
    IF memoryModel = "SC" THEN StoreThrough(ms, t, c, v)
                          ELSE StoreBuffered(ms, t, c, v)

\* A load by thread t: its own newest buffered store to c, else memory.
LoadOp(ms, t, c) ==
    LET hits == {i \in 1..Len(ms.sb[t]) : ms.sb[t][i][1] = c}
    IN  IF hits = {} THEN ms.mem[c]
        ELSE ms.sb[t][CHOOSE i \in hits : \A j \in hits : j <= i][2]

\* The oldest store of t's buffer reaches memory.
FlushOp(ms, t) ==
    LET e == Head(ms.sb[t])
    IN  [mem |-> [ms.mem EXCEPT ![e[1]] = e[2]],
         sb  |-> [ms.sb EXCEPT ![t] = Tail(@)]]

\* All of t's buffered stores reach memory, oldest first.
RECURSIVE DrainOp(_, _)
DrainOp(ms, t) ==
    IF ms.sb[t] = <<>> THEN ms ELSE DrainOp(FlushOp(ms, t), t)

----------------------------------------------------------------------------
(* Semaphores.  sem_post and sem_wait synchronize memory: the caller's     *)
(* earlier stores are visible to every thread when the call returns.       *)

\* sem_post without the memory synchronization.
sem_postNoSync(t, s) ==
    /\ sem' = [sem EXCEPT ![s] = @ + 1]
    /\ nPost' = [nPost EXCEPT ![s] = @ + 1]
    /\ UNCHANGED <<mem, sb, nWait>>

sem_post(t, s) ==
    /\ SetMS(DrainOp(MS, t))
    /\ sem' = [sem EXCEPT ![s] = @ + 1]
    /\ nPost' = [nPost EXCEPT ![s] = @ + 1]
    /\ UNCHANGED nWait

\* sem_wait as sem_trywait would behave with its result ignored.
sem_waitNoBlock(t, s) ==
    /\ SetMS(DrainOp(MS, t))
    /\ sem' = [sem EXCEPT ![s] = IF @ > 0 THEN @ - 1 ELSE @]
    /\ nWait' = [nWait EXCEPT ![s] = @ + 1]
    /\ UNCHANGED nPost

sem_wait(t, s) ==
    /\ sem[s] > 0
    /\ SetMS(DrainOp(MS, t))
    /\ sem' = [sem EXCEPT ![s] = @ - 1]
    /\ nWait' = [nWait EXCEPT ![s] = @ + 1]
    /\ UNCHANGED nPost

Goto(t, l) == pc' = [pc EXCEPT ![t] = l]

----------------------------------------------------------------------------
(* int.  INT_MAX + 1 is undefined: the build may leave any int. *)

IntMax == (2 ^ (intBits - 2) - 1) + 2 ^ (intBits - 2)
IntMin == (-IntMax) - 1

\* The values n++ can leave.
IntInc(n) == IF n < IntMax THEN {n + 1} ELSE IntMin..IntMax

----------------------------------------------------------------------------
InitCommon ==
    /\ pc = [t \in Threads |-> IF t = "main" THEN "sem_init" ELSE "notcreated"]
    /\ mem = [c \in Cells |-> 0]
    /\ sb = [t \in Threads |-> <<>>]
    /\ sem = [s \in Semas |-> 0]
    /\ detected = 0
    /\ iterations = 1
    /\ out = <<>>
    /\ nPost = [s \in Semas |-> 0]
    /\ nWait = [s \in Semas |-> 0]
    /\ nTxn = [w \in Workers |-> 0]
    /\ nRes = [w \in Workers |-> 0]
    /\ results = <<>>
    /\ numberOfProcessors \in ProcessorCounts
    /\ affinity = [w \in Workers |-> 0..(numberOfProcessors - 1)]
    /\ failed = {}
    /\ lastLoad = [w \in Workers |-> 0]

\* The machine the program runs on is either one.
Init == memoryModel \in {"SC", "TSO"} /\ intBits = IntBitsReal /\ InitCommon

\* The same program with a narrow int, so that the counters reach INT_MAX
\* within the trials explored.
InitNarrowInt ==
    memoryModel \in {"SC", "TSO"} /\ intBits = IntBitsNarrow /\ InitCommon

----------------------------------------------------------------------------
(* main *)

\* sem_init(&sem, 0, 1): the semaphores start at 1.
MainSemInitOne ==
    /\ pc["main"] = "sem_init"
    /\ sem' = [s \in Semas |-> 1]
    /\ Goto("main", "create1")
    /\ UNCHANGED <<machine, affinity, failed, lastLoad, mem, sb, detected,
                   iterations, out, nPost, nWait, nTxn, nRes, results>>

\* lines 129-132: the four semaphores start at 0
MainSemInit ==
    /\ pc["main"] = "sem_init"
    /\ sem' = [s \in Semas |-> 0]
    /\ Goto("main", "create1")
    /\ UNCHANGED <<machine, affinity, failed, lastLoad, mem, sb, detected,
                   iterations, out,
                   nPost, nWait, nTxn, nRes, results>>

\* lines 136-137: pthread_create starts the worker at the top of its
\* function, or fails (EAGAIN) and starts nothing; main does not look at the
\* result.
MainCreate(w) ==
    /\ pc["main"] = (IF w = "thread1" THEN "create1" ELSE "create2")
    /\ pc[w] = "notcreated"
    /\ \E ok \in BOOLEAN :
        /\ pc' = [pc EXCEPT
                    !["main"] = IF w = "thread1" THEN "create2" ELSE "resetX",
                    ![w] = IF ok THEN "srand" ELSE "notcreated"]
        /\ failed' = IF ok THEN failed
                           ELSE failed \cup {<<"pthread_create", w>>}
    /\ UNCHANGED <<machine, affinity, lastLoad, mem, sb, sem, detected,
                   iterations, out, nPost, nWait, nTxn, nRes, results>>

\* line 146: X = 0
MainResetX ==
    /\ pc["main"] = "resetX"
    /\ SetMS(StoreOp(MS, "main", "X", 0))
    /\ Goto("main", "resetY")
    /\ UNCHANGED <<machine, affinity, failed, lastLoad, sem, detected,
                   iterations, out,
                   nPost, nWait, nTxn, nRes, results>>

\* line 147: Y = 0
MainResetY ==
    /\ pc["main"] = "resetY"
    /\ SetMS(StoreOp(MS, "main", "Y", 0))
    /\ Goto("main", "post1")
    /\ UNCHANGED <<machine, affinity, failed, lastLoad, sem, detected,
                   iterations, out,
                   nPost, nWait, nTxn, nRes, results>>

\* line 149: sem_post(&beginSema1)
MainPost1 ==
    /\ pc["main"] = "post1"
    /\ sem_post("main", "beginSema1")
    /\ Goto("main", "post2")
    /\ UNCHANGED <<machine, affinity, failed, lastLoad, detected, iterations,
                   out, nTxn, nRes, results>>

\* line 150: sem_post(&beginSema2)
MainPost2 ==
    /\ pc["main"] = "post2"
    /\ sem_post("main", "beginSema2")
    /\ Goto("main", "wait1")
    /\ UNCHANGED <<machine, affinity, failed, lastLoad, detected, iterations,
                   out, nTxn, nRes, results>>

\* main goes on without waiting for thread1.
MainWait1Skipped ==
    /\ pc["main"] = "wait1"
    /\ Goto("main", "wait2")
    /\ UNCHANGED <<machine, affinity, failed, lastLoad, mem, sb, sem,
                   detected, iterations, out,
                   nPost, nWait, nTxn, nRes, results>>

\* line 152: sem_wait(&endSema1)
MainWait1 ==
    /\ pc["main"] = "wait1"
    /\ sem_wait("main", "endSema1")
    /\ Goto("main", "wait2")
    /\ UNCHANGED <<machine, affinity, failed, lastLoad, detected, iterations,
                   out, nTxn, nRes, results>>

\* main goes on without waiting for thread2.
MainWait2Skipped ==
    /\ pc["main"] = "wait2"
    /\ Goto("main", "eval_r1")
    /\ UNCHANGED <<machine, affinity, failed, lastLoad, mem, sb, sem,
                   detected, iterations, out,
                   nPost, nWait, nTxn, nRes, results>>

\* main waits for thread1 a second time.
MainWait2OnEndSema1 ==
    /\ pc["main"] = "wait2"
    /\ sem_wait("main", "endSema1")
    /\ Goto("main", "eval_r1")
    /\ UNCHANGED <<machine, affinity, failed, lastLoad, detected, iterations,
                   out, nTxn, nRes, results>>

\* line 153: sem_wait(&endSema2)
MainWait2 ==
    /\ pc["main"] = "wait2"
    /\ sem_wait("main", "endSema2")
    /\ Goto("main", "eval_r1")
    /\ UNCHANGED <<machine, affinity, failed, lastLoad, detected, iterations,
                   out, nTxn, nRes, results>>

\* The test of r1 alone decides: r2 is not looked at.
MainEvalR1Only ==
    /\ pc["main"] = "eval_r1"
    /\ Goto("main", IF LoadOp(MS, "main", "r1") = 0 THEN "detect" ELSE "incr")
    /\ results' = Append(results, <<mem.r1, mem.r2>>)
    /\ UNCHANGED <<machine, affinity, failed, lastLoad, mem, sb, sem,
                   detected, iterations, out,
                   nPost, nWait, nTxn, nRes>>

\* line 156, left operand: r1 == 0; && goes on to r2 only when it holds
MainEvalR1 ==
    /\ pc["main"] = "eval_r1"
    /\ Goto("main", IF LoadOp(MS, "main", "r1") = 0 THEN "eval_r2" ELSE "incr")
    /\ results' = Append(results, <<mem.r1, mem.r2>>)
    /\ UNCHANGED <<machine, affinity, failed, lastLoad, mem, sb, sem,
                   detected, iterations, out,
                   nPost, nWait, nTxn, nRes>>

\* line 156, right operand: r2 == 0
MainEvalR2 ==
    /\ pc["main"] = "eval_r2"
    /\ Goto("main", IF LoadOp(MS, "main", "r2") = 0 THEN "detect" ELSE "incr")
    /\ UNCHANGED <<machine, affinity, failed, lastLoad, mem, sb, sem,
                   detected, iterations, out,
                   nPost, nWait, nTxn, nRes, results>>

\* detected = 1 in place of detected++.
MainDetectFlag ==
    /\ pc["main"] = "detect"
    /\ detected' = 1
    /\ Goto("main", "printf")
    /\ UNCHANGED <<machine, affinity, failed, lastLoad, mem, sb, sem,
                   iterations, out,
                   nPost, nWait, nTxn, nRes, results>>

\* line 159: detected++
MainDetect ==
    /\ pc["main"] = "detect"
    /\ detected' \in IntInc(detected)
    /\ Goto("main", "printf")
    /\ UNCHANGED <<machine, affinity, failed, lastLoad, mem, sb, sem,
                   iterations, out,
                   nPost, nWait, nTxn, nRes, results>>

\* The report counts trials from 0.
MainPrintfZeroBased ==
    /\ pc["main"] = "printf"
    /\ out' = Append(out, <<detected, iterations - 1>>)
    /\ Goto("main", "incr")
    /\ UNCHANGED <<machine, affinity, failed, lastLoad, mem, sb, sem,
                   detected, iterations,
                   nPost, nWait, nTxn, nRes, results>>

\* line 160: printf("%d reorders detected after %d iterations\n", ...)
MainPrintf ==
    /\ pc["main"] = "printf"
    /\ out' = Append(out, <<detected, iterations>>)
    /\ Goto("main", "incr")
    /\ UNCHANGED <<machine, affinity, failed, lastLoad, mem, sb, sem,
                   detected, iterations,
                   nPost, nWait, nTxn, nRes, results>>

\* line 143: iterations++, then the next trial
MainIncr ==
    /\ pc["main"] = "incr"
    /\ Len(results) < MaxTrials
    /\ iterations' \in IntInc(iterations)
    /\ Goto("main", "resetX")
    /\ UNCHANGED <<machine, affinity, failed, lastLoad, mem, sb, sem,
                   detected, out,
                   nPost, nWait, nTxn, nRes, results>>

main ==
    \/ MainSemInit
    \/ \E w \in Workers : MainCreate(w)
    \/ MainResetX
    \/ MainResetY
    \/ MainPost1
    \/ MainPost2
    \/ MainWait1
    \/ MainWait2
    \/ MainEvalR1
    \/ MainEvalR2
    \/ MainDetect
    \/ MainPrintf
    \/ MainIncr

----------------------------------------------------------------------------
(* thread1Func and thread2Func: the same statements on mirrored variables *)

\* The store writes 2.
TxnStoreTwo(ms, w) == StoreOp(ms, w, OwnVar(w), 2)

\* lines 86 / 112: X = 1 (thread1), Y = 1 (thread2)
TxnStore(ms, w) == StoreOp(ms, w, OwnVar(w), 1)

\* The load is made and its value is stored nowhere.
TxnLoadDropped(ms, w) == ms

\* lines 88 / 114: r1 = Y (thread1), r2 = X (thread2)
TxnLoad(ms, w) == StoreOp(ms, w, ResCell(w), LoadOp(ms, w, OtherVar(w)))

\* lines 71-72 / 98-99: srand((unsigned) time(&t))
WorkerSrand(w) ==
    /\ pc[w] = "srand"
    /\ Goto(w, "setaffinity")
    /\ UNCHANGED <<machine, affinity, failed, lastLoad, mem, sb, sem,
                   detected, iterations, out,
                   nPost, nWait, nTxn, nRes, results>>

\* lines 75-78 / 101-104: pthread_setaffinity_np binds the thread to its
\* CPU, or fails (EINVAL) when the machine has no such CPU and binds
\* nothing; the result is not looked at.
WorkerSetAffinity(w) ==
    /\ pc[w] = "setaffinity"
    /\ IF Cpu(w) < numberOfProcessors
          THEN affinity' = [affinity EXCEPT ![w] = {Cpu(w)}] /\ UNCHANGED failed
          ELSE failed' = failed \cup {<<"pthread_setaffinity_np", w>>}
               /\ UNCHANGED affinity
    /\ Goto(w, "sem_wait")
    /\ UNCHANGED <<machine, lastLoad, mem, sb, sem, detected, iterations,
                   out, nPost, nWait, nTxn, nRes, results>>

\* lines 82 / 108: sem_wait(&beginSema)
WorkerWait(w) ==
    /\ pc[w] = "sem_wait"
    /\ sem_wait(w, BeginSema(w))
    /\ Goto(w, "delay")
    /\ UNCHANGED <<machine, affinity, failed, lastLoad, detected, iterations,
                   out, nTxn, nRes, results>>

\* lines 83 / 109: while (rand() % 8 != 0) {}
WorkerDelay(w) ==
    /\ pc[w] = "delay"
    /\ \E r \in 0..(RandMod - 1) : Goto(w, IF r # 0 THEN "delay" ELSE "store")
    /\ UNCHANGED <<machine, affinity, failed, lastLoad, mem, sb, sem,
                   detected, iterations, out,
                   nPost, nWait, nTxn, nRes, results>>

\* lines 86 / 112
WorkerStore(w) ==
    /\ pc[w] = "store"
    /\ SetMS(TxnStore(MS, w))
    /\ nTxn' = [nTxn EXCEPT ![w] = @ + 1]
    /\ Goto(w, "load")
    /\ UNCHANGED <<machine, affinity, failed, lastLoad, sem, detected,
                   iterations, out,
                   nPost, nWait, nRes, results>>

\* lines 87-88 / 113-114: the asm statement emits no instruction
WorkerLoad(w) ==
    /\ pc[w] = "load"
    /\ SetMS(TxnLoad(MS, w))
    /\ lastLoad' = [lastLoad EXCEPT ![w] = LoadOp(MS, w, OtherVar(w))]
    /\ nRes' = [nRes EXCEPT ![w] = @ + 1]
    /\ Goto(w, "sem_post")
    /\ UNCHANGED <<machine, affinity, failed, sem, detected, iterations, out,
                   nPost, nWait, nTxn, results>>

\* lines 90 / 116: sem_post(&endSema)
WorkerPost(w) ==
    /\ pc[w] = "sem_post"
    /\ sem_post(w, EndSema(w))
    /\ Goto(w, "sem_wait")
    /\ UNCHANGED <<machine, affinity, failed, lastLoad, detected, iterations,
                   out, nTxn, nRes, results>>

WorkerFunc(w) ==
    \/ WorkerSrand(w)
    \/ WorkerSetAffinity(w)
    \/ WorkerWait(w)
    \/ WorkerDelay(w)
    \/ WorkerStore(w)
    \/ WorkerLoad(w)
    \/ WorkerPost(w)

thread1Func == WorkerFunc("thread1")

thread2Func == WorkerFunc("thread2")

----------------------------------------------------------------------------
\* The hardware moves the oldest store of some thread's buffer to memory.
Flush ==
    /\ \E t \in Threads : sb[t] # <<>> /\ SetMS(FlushOp(MS, t))
    /\ UNCHANGED <<machine, affinity, failed, lastLoad, pc, sem, detected,
                   iterations, out,
                   nPost, nWait, nTxn, nRes, results>>

Next == main \/ thread1Func \/ thread2Func \/ Flush

Spec == Init /\ [][Next]_vars

\* The threads are scheduled fairly: a thread that can take a step takes
\* one, and a delay loop that keeps drawing draws the stop value.
Fairness ==
    /\ WF_vars(main)
    /\ WF_vars(thread1Func)
    /\ WF_vars(thread2Func)

SpecFair == Init /\ [][Next]_vars /\ Fairness

SpecNarrowInt == InitNarrowInt /\ [][Next]_vars

----------------------------------------------------------------------------
(* Barrier properties *)

InTransaction(w) == pc[w] \in {"delay", "store", "load", "sem_post"}

\* C1: trials never overlap.  Whenever main is at the reset of trial
\* `iterations` (about to store 0 to X or to Y, or has just done both), no
\* worker is between its sem_wait(beginSema) and its sem_post(endSema), and
\* both have run the whole transaction of trial iterations - 1 and posted
\* their end semaphore for it, which main has consumed.
TrialsNeverOverlap ==
    pc["main"] \in {"resetX", "resetY", "post1"} =>
        \A w \in Workers :
            /\ ~InTransaction(w)
            /\ sb[w] = <<>>
            /\ nTxn[w] = iterations - 1
            /\ nRes[w] = iterations - 1
            /\ nPost[EndSema(w)] = iterations - 1
            /\ nWait[EndSema(w)] = iterations - 1

\* main is at the reset of the third trial.
TrialsNeverOverlapWitness ==
    /\ pc["main"] = "resetX"
    /\ iterations = 3
    /\ \A w \in Workers : nTxn[w] = 2 /\ pc[w] = "sem_wait"

\* C3: a worker never starts a transaction before that trial's start
\* signal.  The k-th store of 1 by worker w comes after the k-th sem_post on
\* its begin semaphore and after the worker's k-th return from sem_wait, and
\* the worker runs one transaction per signal: it is never ahead of main's
\* trial counter.
WorkerNeverAhead ==
    \A w \in Workers :
        /\ nTxn[w] <= nWait[BeginSema(w)]
        /\ nWait[BeginSema(w)] <= nPost[BeginSema(w)]
        /\ nPost[BeginSema(w)] <= iterations
        /\ nWait[BeginSema(w)] <= nTxn[w] + 1
        /\ pc[w] \in {"delay", "store"} => nTxn[w] = nWait[BeginSema(w)] - 1
        /\ pc[w] \in {"load", "sem_post"} => nTxn[w] = nWait[BeginSema(w)]
        /\ nRes[w] <= nTxn[w]

\* thread2 has just executed the store of its third transaction.
WorkerNeverAheadWitness ==
    /\ pc["thread2"] = "load"
    /\ nTxn["thread2"] = 3
    /\ nPost["beginSema2"] = 3

\* C4: main never evaluates a trial before its done signals.  While main
\* evaluates trial `iterations` (line 156 to the end of the loop body), both
\* workers have written their result cell for that trial, the write has
\* reached memory, and both have posted their end semaphore for it.
EvalAfterDone ==
    pc["main"] \in {"eval_r1", "eval_r2", "detect", "printf", "incr"} =>
        \A w \in Workers :
            /\ nRes[w] = iterations
            /\ nPost[EndSema(w)] = iterations
            /\ nWait[EndSema(w)] = iterations
            /\ sb[w] = <<>>
            /\ pc[w] = "sem_wait"

\* main evaluates r2 in the second trial.
EvalAfterDoneWitness ==
    /\ pc["main"] = "eval_r2"
    /\ iterations = 2
    /\ nRes = [w \in Workers |-> 2]

\* C5: the reset invariant.  From the end of main's reset until the first
\* worker executes the store of its transaction in that trial, X and Y are 0
\* for main and for every worker that has been released, no store of a
\* worker is still on its way to memory, and once main has posted a begin
\* semaphore memory itself holds X = 0 and Y = 0.
ResetInvariant ==
    (/\ pc["main"] \in {"post1", "post2", "wait1", "wait2"}
     /\ \A w \in Workers : nTxn[w] = iterations - 1)
    => /\ \A t \in Threads :
            (t = "main" \/ pc[t] \in {"delay", "store"}) =>
                LoadOp(MS, t, "X") = 0 /\ LoadOp(MS, t, "Y") = 0
       /\ \A w \in Workers : sb[w] = <<>>
       /\ pc["main"] # "post1" => X = 0 /\ Y = 0

\* The second trial: both workers are released and have stored 1 in the
\* first trial, neither has stored yet in this one.
ResetInvariantWitness ==
    /\ pc["main"] = "wait1"
    /\ iterations = 2
    /\ nTxn = [w \in Workers |-> 1]
    /\ \A w \in Workers : pc[w] = "store"

----------------------------------------------------------------------------
(* The results of a trial *)

Bit == {0, 1}
AllPairs == Bit \X Bit

\* The trials evaluated so far in which both result cells were 0.
ZeroTrials == {i \in 1..Len(results) : results[i] = <<0, 0>>}

\* Every <<r1, r2>> memory can hold once both workers have run the rest of
\* their transaction from memory system ms and posted: p1 and p2 are the
\* statements thread1 and thread2 are at ("store", "load", "sem_post", or
\* "sem_wait" when done); any buffered store may be flushed at any time.
RECURSIVE TrialOutcomes(_, _, _)
TrialOutcomes(ms, p1, p2) ==
    LET p == [w \in Workers |-> IF w = "thread1" THEN p1 ELSE p2]
        After(w, ms2, l) ==
            IF w = "thread1" THEN TrialOutcomes(ms2, l, p2)
                             ELSE TrialOutcomes(ms2, p1, l)
        StepOf(w) ==
            CASE p[w] = "store"    -> After(w, TxnStore(ms, w), "load")
              [] p[w] = "load"     -> After(w, TxnLoad(ms, w), "sem_post")
              [] p[w] = "sem_post" -> After(w, DrainOp(ms, w), "sem_wait")
              [] OTHER             -> {}
        FlushOf(t) ==
            IF ms.sb[t] = <<>> THEN {}
            ELSE TrialOutcomes(FlushOp(ms, t), p1, p2)
    IN  IF p1 = "sem_wait" /\ p2 = "sem_wait"
        THEN {<<ms.mem.r1, ms.mem.r2>>}
        ELSE UNION ({StepOf(w) : w \in Workers} \cup {FlushOf(t) : t \in Threads})

\* C2: under sequential consistency no completed trial has r1 = 0 and
\* r2 = 0 at main's evaluation: detected stays 0, nothing is reported, and
\* main never reaches the detection branch.
SCNeverBothZero ==
    memoryModel = "SC" =>
        /\ detected = 0
        /\ out = <<>>
        /\ ZeroTrials = {}
        /\ pc["main"] \notin {"detect", "printf"}
        /\ pc["main"] \in {"eval_r1", "eval_r2"} => ~(r1 = 0 /\ r2 = 0)

\* Under sequential consistency the last trial has been evaluated.
SCNeverBothZeroWitness ==
    /\ memoryModel = "SC"
    /\ pc["main"] = "incr"
    /\ Len(results) = MaxTrials
    /\ iterations = MaxTrials

\* C6: the reachable result set.  r1 and r2 (and X and Y) are 0 or 1 in
\* every reachable state, buffered stores included, and the pair main
\* evaluated in every trial is one of (0,0), (0,1), (1,0), (1,1).
ResultSet ==
    /\ \A c \in Cells : mem[c] \in Bit
    /\ \A t \in Threads : \A i \in 1..Len(sb[t]) : sb[t][i][2] \in Bit
    /\ \A i \in 1..Len(results) : results[i] \in AllPairs

\* main has evaluated the third trial, whose result is (1, 1).
ResultSetWitness ==
    /\ pc["main"] = "incr"
    /\ Len(results) = 3
    /\ results[3] = <<1, 1>>
    /\ r1 = 1 /\ r2 = 1

\* C7: with store buffers all four result pairs are reachable.  From every
\* state in which both workers have been released for a trial and neither
\* has stored yet, the executions of the two transactions end with each of
\* (0,0), (0,1), (1,0) and (1,1) in <<r1, r2>>.
AllFourReachable ==
    (/\ memoryModel = "TSO"
     /\ \A w \in Workers : pc[w] \in {"delay", "store"})
    => TrialOutcomes(MS, "store", "store") = AllPairs

\* One run in which main has evaluated all four pairs and has counted and
\* reported the trial that ended with (0, 0).
AllFourReachableWitness ==
    /\ memoryModel = "TSO"
    /\ {results[i] : i \in 1..Len(results)} = AllPairs
    /\ detected = 1
    /\ Len(out) = 1

----------------------------------------------------------------------------
(* Detection and reporting *)

\* C8: the detection predicate.  When main has finished evaluating trial
\* `iterations`, that trial is counted if and only if both result cells were
\* 0: the counter equals the number of trials so far that ended with (0,0),
\* and a report exists for exactly those trials; a trial that ended with
\* (0,1), (1,0) or (1,1) left the counter and the output as they were.
DetectionPredicate ==
    /\ pc["main"] = "incr" =>
        /\ Len(results) = iterations
        /\ results[iterations] = <<r1, r2>>
        /\ detected = Cardinality(ZeroTrials)
        /\ {out[j][2] : j \in 1..Len(out)} = ZeroTrials
        /\ Len(out) = detected
    /\ pc["main"] \in {"detect", "printf"} => r1 = 0 /\ r2 = 0

\* Two trials evaluated: the first ended with (0, 0) and was counted, the
\* second ended with (1, 0) and was not.
DetectionPredicateWitness ==
    /\ pc["main"] = "incr"
    /\ results = << <<0, 0>>, <<1, 0>> >>
    /\ detected = 1
    /\ out = << <<1, 1>> >>

\* C9: monotonicity.  No step decreases detected; a step that changes it
\* adds exactly 1, is the detection branch of a trial whose result cells are
\* both 0, and no later step of the same trial changes it again: detected
\* never exceeds the number of evaluated trials that ended with (0,0).
Monotonicity ==
    /\ [](detected <= Cardinality(ZeroTrials))
    /\ [][/\ detected' >= detected
          /\ detected' # detected =>
                /\ detected' = detected + 1
                /\ pc["main"] = "detect"
                /\ r1 = 0 /\ r2 = 0
                /\ iterations \in ZeroTrials
                /\ detected' = Cardinality(ZeroTrials)
          /\ (pc["main"] = "detect" /\ pc'["main"] # "detect") =>
                detected' = detected + 1]_vars

\* The counter has been incremented for the second time.
MonotonicityWitness ==
    /\ pc["main"] = "printf"
    /\ detected = 2
    /\ Len(out) = 1

\* C10: the report.  The j-th line printed carries j, the value of
\* detected after its j-th increment, and the index of the trial just
\* evaluated, which is the j-th trial that ended with (0,0); the trial index
\* is 1 in the first trial and one more than the number of completed trials
\* afterwards.
ReportCarries ==
    /\ \A j \in 1..Len(out) :
        /\ out[j][1] = j
        /\ out[j][2] \in ZeroTrials
        /\ Cardinality({i \in ZeroTrials : i <= out[j][2]}) = j
    /\ pc["main"] = "incr" => Len(out) = detected /\ iterations = Len(results)
    /\ pc["main"] \in {"resetX", "resetY", "post1", "post2", "wait1", "wait2",
                       "eval_r1"} => iterations = Len(results) + 1
    /\ pc["main"] \in {"sem_init", "create1", "create2"} => iterations = 1

\* The second report is printed in the fourth trial.
ReportCarriesWitness ==
    /\ pc["main"] = "incr"
    /\ Len(out) = 2
    /\ out[2] = <<2, 4>>

----------------------------------------------------------------------------
(* Semaphores and startup *)

\* On every semaphore the waits that have returned never exceed the posts,
\* and the value is the number of posts not yet consumed.
WaitsMatchPosts ==
    \A s \in Semas : nWait[s] <= nPost[s] /\ sem[s] = nPost[s] - nWait[s]

\* C11: rendezvous signal accounting.  On each of the four semaphores every
\* wait that returns consumes one earlier post (the waits never exceed the
\* posts, and the value is their difference), and every post is eventually
\* consumed by a wait: the k-th post leads to the k-th return of sem_wait.
SignalAccounting ==
    /\ []WaitsMatchPosts
    /\ \A s \in Semas : \A k \in 1..MaxTrials :
          (nPost[s] >= k) ~> (nWait[s] >= k)

\* The same, in the runs in which both pthread_create calls succeed.
SignalAccountingWhenCreated ==
    /\ []WaitsMatchPosts
    /\ \A s \in Semas : \A k \in 1..MaxTrials :
          (nPost[s] >= k /\ \A w \in Workers : <<"pthread_create", w>> \notin failed)
              ~> (nWait[s] >= k)

\* Both threads were created and both CPUs exist: no startup call fails.
StartupSucceeds ==
    /\ failed = {}
    /\ \A w \in Workers : Cpu(w) < numberOfProcessors

\* The model stops main after MaxTrials trials.
TrialsExhausted == pc["main"] = "incr" /\ Len(results) = MaxTrials

\* C17: progress.  With fair scheduling, delay loops that end and a
\* successful startup, no state is a deadlock; every trial main starts is
\* completed and evaluated (main reaches the end of the loop body having
\* evaluated as many trials as it has started), and the number of trials
\* keeps growing (in the model: up to MaxTrials, where the exploration
\* stops).
Progress ==
    /\ [](StartupSucceeds => (ENABLED <<Next>>_vars) \/ TrialsExhausted)
    /\ (StartupSucceeds /\ pc["main"] = "resetX")
          ~> (/\ pc["main"] = "incr"
              /\ Len(results) = nPost["beginSema1"]
              /\ Len(results) = nPost["beginSema2"])
    /\ (StartupSucceeds /\ pc["main"] = "resetX") ~> TrialsExhausted

\* After a successful startup every trial explored has been evaluated.
ProgressWitness ==
    /\ StartupSucceeds
    /\ TrialsExhausted
    /\ \A s \in Semas : nPost[s] = MaxTrials /\ nWait[s] = MaxTrials
    /\ \A w \in Workers : affinity[w] = {Cpu(w)}

\* C12: startup failures are fatal.  Once a startup call has failed
\* (pthread_create, pthread_setaffinity_np) no step of a trial is taken: main
\* stores to neither X nor Y, posts no begin semaphore, and no worker runs a
\* statement of its transaction.
StartupFailuresFatal ==
    [][failed # {} =>
        /\ ~(pc["main"] \in {"resetX", "resetY", "post1", "post2"}
             /\ pc'["main"] # pc["main"])
        /\ nTxn' = nTxn
        /\ nRes' = nRes]_vars

\* C13: every transaction runs on the worker's own CPU.  The two CPUs are
\* distinct, and from its first sem_wait on each worker is bound to exactly
\* its CPU (10 for thread1, 1 for thread2), whatever statement it is at.
WorkersPinned ==
    /\ Cpu("thread1") # Cpu("thread2")
    /\ \A w \in Workers :
          pc[w] \in {"sem_wait", "delay", "store", "load", "sem_post"} =>
              affinity[w] = {Cpu(w)}

\* C14: no stale results.  What main reads from r1 and r2 when it evaluates
\* trial `iterations` is what thread1 and thread2 loaded in that trial: each
\* result cell has been written once per trial, the last time in this trial
\* with the value of the worker's last load, and the pair evaluated is the
\* pair of those loads.
NoStaleResults ==
    /\ pc["main"] \in {"eval_r1", "eval_r2", "detect", "printf", "incr"} =>
        /\ \A w \in Workers :
              /\ nRes[w] = iterations
              /\ LoadOp(MS, "main", ResCell(w)) = lastLoad[w]
        /\ pc["main"] # "eval_r1" =>
              results[iterations] = <<lastLoad["thread1"], lastLoad["thread2"]>>
    /\ \A w \in Workers : nRes[w] \in {Len(results), Len(results) + 1}

\* main evaluates the second trial; r1 was 1 in the first trial and is the
\* 0 thread1 loaded in the second.
NoStaleResultsWitness ==
    /\ pc["main"] = "eval_r2"
    /\ iterations = 2
    /\ results[1] = <<1, 1>>
    /\ lastLoad["thread1"] = 0
    /\ r1 = 0

----------------------------------------------------------------------------
(* Who writes what *)

\* In this step thread t issues a store of v to cell c: it enters t's store
\* buffer, or, without store buffers, changes memory.
Stores(t, c, v) ==
    /\ pc'[t] # pc[t]
    /\ \/ Len(sb'[t]) > Len(sb[t]) /\ sb'[t][Len(sb'[t])] = <<c, v>>
       \/ memoryModel = "SC" /\ mem'[c] # mem[c] /\ mem'[c] = v

\* C15: write ownership.  A store to X is thread1's X = 1 or main's reset,
\* a store to Y is thread2's Y = 1 or main's reset, a store to r1 is
\* thread1's and a store to r2 is thread2's, one of each per worker and
\* trial; main stores to no result cell; memory changes only by a store
\* issued earlier by the thread whose buffer holds it; and the delay loop
\* changes no cell, no buffer and no semaphore.
WriteOwnership ==
    [][/\ \A t \in Threads : \A c \in Cells : \A v \in 0..2 :
            Stores(t, c, v) =>
                \/ t = "main" /\ c \in {"X", "Y"} /\ v = 0
                                /\ pc["main"] \in {"resetX", "resetY"}
                \/ /\ <<t, c>> \in {<<"thread1", "X">>, <<"thread2", "Y">>}
                   /\ v = 1 /\ pc[t] = "store" /\ nTxn[t] = iterations - 1
                \/ /\ <<t, c>> \in {<<"thread1", "r1">>, <<"thread2", "r2">>}
                   /\ pc[t] = "load" /\ nRes[t] = iterations - 1
       /\ \A c \in Cells :
            (memoryModel = "TSO" /\ mem'[c] # mem[c]) =>
                \E t \in Threads :
                    sb[t] # <<>> /\ \E i \in 1..Len(sb[t]) : sb[t][i] = <<c, mem'[c]>>
       /\ \A w \in Workers :
            (pc[w] = "delay" /\ pc'[w] # pc[w]) =>
                UNCHANGED <<mem, sb, sem>>]_vars

\* thread2 has stored to r2 in the second trial, after thread1 stored to X.
WriteOwnershipWitness ==
    /\ pc["thread2"] = "sem_post"
    /\ nRes["thread2"] = 2
    /\ nTxn["thread1"] = 2
    /\ iterations = 2

----------------------------------------------------------------------------
(* Semaphore values and the counters *)

\* Every semaphore is 0 or 1, and of a worker's two semaphores at most one
\* is not 0.
SemaphoresBinary ==
    /\ \A s \in Semas : sem[s] \in {0, 1}
    /\ \A w \in Workers : sem[BeginSema(w)] = 0 \/ sem[EndSema(w)] = 0

\* Worker w is at its first sem_wait.
AtFirstWait(w) == pc[w] = "sem_wait" /\ nWait[BeginSema(w)] = 0

\* C18 as stated: the semaphores are binary, at most one of a worker's two
\* is not 0, and all four are 0 when either worker first waits.
SemaphoreBoundAsStated ==
    /\ SemaphoresBinary
    /\ \A w \in Workers : AtFirstWait(w) => \A s \in Semas : sem[s] = 0

\* C18, amended: the semaphores are binary, at most one of a worker's two is
\* not 0, all four are 0 while main creates the workers, and a worker's own
\* end semaphore is 0 when it first waits (its begin semaphore, and the
\* other worker's semaphores, may already be 1).
SemaphoreBound ==
    /\ SemaphoresBinary
    /\ pc["main"] \in {"create1", "create2"} => \A s \in Semas : sem[s] = 0
    /\ \A w \in Workers : AtFirstWait(w) => sem[EndSema(w)] = 0

\* thread1 is at its first sem_wait and main has already posted beginSema1;
\* thread2 has finished its first transaction and posted endSema2.
SemaphoreBoundWitness ==
    /\ AtFirstWait("thread1")
    /\ sem["beginSema1"] = 1
    /\ sem["endSema2"] = 1

\* C19: the counter bound.  When a report is printed and at the end of
\* every loop body, 0 <= detected <= iterations, and detected is at most the
\* number of trials evaluated.
CounterBound ==
    pc["main"] \in {"printf", "incr"} =>
        /\ 0 <= detected
        /\ detected <= iterations
        /\ detected <= Len(results)

\* C20: no counter wrap-around.  The trial index is at least 1 and every
\* iterations++ adds exactly 1 to it; detected is at least 0 and every
\* detected++ adds exactly 1 to it.
NoWrapAround ==
    /\ [](iterations >= 1 /\ detected >= 0)
    /\ [][/\ (pc["main"] = "incr" /\ pc'["main"] # "incr") =>
                iterations' = iterations + 1
          /\ (pc["main"] = "detect" /\ pc'["main"] # "detect") =>
                detected' = detected + 1]_vars

====
